---- MODULE Spec2Model ----
(***************************************************************************)
(* Model of the time tracker (src/app.py): the timer state store           *)
(* (table active_sessions), the ledger (table logs), the notification feed *)
(* (table notifications) and the three write handlers of the Streamlit     *)
(* script (Clock In, Clock Out, Save manual hours).                        *)
(*                                                                         *)
(* Every front-end session runs the script in its own thread; every        *)
(* database function opens its own connection and commits one statement.   *)
(* A step of the model is therefore one database statement (or one read of *)
(* the wall clock) together with the local computation that follows it.    *)
(*                                                                         *)
(* Units: instants are whole clock ticks, hours are whole multiples of the *)
(* hours that elapse in one tick; the test abs(x) < 1e-9 is x = 0.         *)
(***************************************************************************)
EXTENDS Integers, Sequences, FiniteSets, TLC

VARIABLES
    active,         \* table active_sessions: person -> rows (0 or 1, person is the primary key)
    logs,           \* table logs, in id (insertion) order
    notifications,  \* table notifications, in id (insertion) order
    now,            \* the wall clock read by now_utc()
    pc,             \* per front-end session: position in the running script
    loc,            \* per front-end session: the script's local variables
    started,        \* history: per person, how many times start_session wrote a row
    nOps            \* history: how many handler runs were begun (bounds the exploration)

vars == <<active, logs, notifications, now, pc, loc, started, nOps>>

\* ------------------------------------------------------------------ bounds
MaxTime == 1
MaxHours == 2
MaxOps == 3
MaxManualOps == 4
MaxTeamOps == 3
MaxClockOps == 4

Sessions == {1, 2}

\* ------------------------------------------------------------------ config
ADMIN_NAME == "Drew"
PEOPLE == <<"Drew", "Carson", "Kaden", "Chandler">>
People == {PEOPLE[i] : i \in 1..Len(PEOPLE)}

\* the monthly vesting threshold, in hours
MONTHLY_GOAL_HRS == 48
\* the people who operate the front end in the model
Actors == {PEOPLE[1]}

ENFORCE_MONTH_FLOOR == TRUE
ENFORCE_DAY_FLOOR == TRUE

\* ------------------------------------------------------------------ dates
Date(y, m, d) == [year |-> y, month |-> m, day |-> d]

\* the values the date pickers take in the model: a Monday and a Tuesday at
\* the end of December and the first day of the next month (and year)
Dates == {Date(2024, 12, 30), Date(2024, 12, 31), Date(2025, 1, 1)}

IsLeap(y) == (y % 4 = 0) /\ ((y % 100 # 0) \/ (y % 400 = 0))

DaysInMonth(y, m) ==
    IF m = 2 THEN (IF IsLeap(y) THEN 29 ELSE 28)
    ELSE IF m \in {4, 6, 9, 11} THEN 30 ELSE 31

\* d + timedelta(days=1)
NextDay(d) ==
    IF d.day < DaysInMonth(d.year, d.month) THEN Date(d.year, d.month, d.day + 1)
    ELSE IF d.month < 12 THEN Date(d.year, d.month + 1, 1)
    ELSE Date(d.year + 1, 1, 1)

\* d - timedelta(days=1)
PrevDay(d) ==
    IF d.day > 1 THEN Date(d.year, d.month, d.day - 1)
    ELSE IF d.month > 1 THEN Date(d.year, d.month - 1, DaysInMonth(d.year, d.month - 1))
    ELSE Date(d.year - 1, 12, 31)

\* d + timedelta(days=n) and d - timedelta(days=n), n >= 0
RECURSIVE PlusDays(_, _)
PlusDays(d, n) == IF n = 0 THEN d ELSE PlusDays(NextDay(d), n - 1)

RECURSIVE MinusDays(_, _)
MinusDays(d, n) == IF n = 0 THEN d ELSE MinusDays(PrevDay(d), n - 1)

\* date.toordinal(): the days from 0001-01-01, that day being 1
RECURSIVE DaysBeforeMonth(_, _)
DaysBeforeMonth(y, m) ==
    IF m = 1 THEN 0 ELSE DaysBeforeMonth(y, m - 1) + DaysInMonth(y, m - 1)

toordinal(d) ==
    LET y == d.year - 1
    IN y * 365 + (y \div 4) - (y \div 100) + (y \div 400)
       + DaysBeforeMonth(d.year, d.month) + d.day

\* date.weekday(): Monday is 0
weekday(d) == (toordinal(d) + 6) % 7

week_start(d) == MinusDays(d, weekday(d))

month_start(d) == Date(d.year, d.month, 1)

month_end_exclusive(d) ==
    IF d.month = 12 THEN Date(d.year + 1, 1, 1)
    ELSE Date(d.year, d.month + 1, 1)

\* date.isoformat(): the text YYYY-MM-DD, kept as its three fixed-width fields
isoformat(d) == <<d.year, d.month, d.day>>

\* SQL: date(a) >= date(b) / date(a) < date(b) compare the ISO texts, field by field
IsoLess(a, b) ==
    \/ a[1] < b[1]
    \/ a[1] = b[1] /\ a[2] < b[2]
    \/ a[1] = b[1] /\ a[2] = b[2] /\ a[3] < b[3]

IsoGeq(a, b) == ~IsoLess(a, b)

\* ------------------------------------------------------------------ helpers
\* iso_utc(): an instant as text; parse_iso(): the text as an instant
iso_utc(t) == <<"utc", t>>
parse_iso(str) == str[2]

Max(a, b) == IF a >= b THEN a ELSE b

\* mutant: no floor at zero
clamp_none(x) == x

clamp_nonneg(x) == Max(0, x)

\* str.strip() on a text kept as a sequence of characters
RECURSIVE LStrip(_)
LStrip(str) ==
    IF str # << >> /\ Head(str) = " " THEN LStrip(Tail(str)) ELSE str

RECURSIVE RStrip(_)
RStrip(str) ==
    IF str # << >> /\ str[Len(str)] = " " THEN RStrip(SubSeq(str, 1, Len(str) - 1)) ELSE str

Strip(str) == RStrip(LStrip(str))

\* the reasons typed into the manual form in the model: blanks only, padded text
Reasons == {<<" ">>, <<" ", "f", "i", "x">>}

\* Python's None for a text, and its truth value
NoText == << >>
Truthy(str) == Len(str) > 0

\* Python's None for a person (no filter)
NoPerson == ""

Min(a, b) == IF a <= b THEN a ELSE b

\* SQL: datetime(created_at), the stored text cut to whole seconds. The clock of
\* the model has no finer grain than a tick: texts written within one tick stand
\* for texts written within one second, and get the same value.
sql_datetime(str) == parse_iso(str)

\* ------------------------------------------------------------------ DB ops
LogRow(created_at, log_date_str, person, hours, notes, source) ==
    [created_at |-> created_at, log_date |-> log_date_str, person |-> person,
     hours |-> hours, notes |-> notes, source |-> source]

\* mutant: the insert replaces the newest row
log_event_overwrite(tbl, t, person, log_date_str, hours, notes, source) ==
    IF tbl = << >>
    THEN <<LogRow(iso_utc(t), log_date_str, person, hours, notes, source)>>
    ELSE [tbl EXCEPT ![Len(tbl)] = LogRow(iso_utc(t), log_date_str, person, hours, notes, source)]

\* INSERT INTO logs
log_event(tbl, t, person, log_date_str, hours, notes, source) ==
    Append(tbl, LogRow(iso_utc(t), log_date_str, person, hours, notes, source))

\* mutant: the notification is inserted twice
add_notification_twice(tbl, t, person, log_date_str, delta_hours, reason, source) ==
    LET n == [created_at |-> iso_utc(t), person |-> person, log_date |-> log_date_str,
              delta_hours |-> delta_hours, reason |-> reason, source |-> source,
              seen |-> 0]
    IN Append(Append(tbl, n), n)

\* INSERT INTO notifications
add_notification(tbl, t, person, log_date_str, delta_hours, reason, source) ==
    Append(tbl, [created_at |-> iso_utc(t), person |-> person, log_date |-> log_date_str,
                 delta_hours |-> delta_hours, reason |-> reason, source |-> source,
                 seen |-> 0])

\* SELECT start_at, log_date FROM active_sessions WHERE person=?  (the rows; fetchone
\* gives the first, and None when there is none)
get_active_session(tbl, person) == tbl[person]

\* INSERT ... ON CONFLICT(person) DO UPDATE SET start_at=..., log_date=...
start_session(tbl, t, person, log_date_str) ==
    [tbl EXCEPT ![person] = <<[start_at |-> iso_utc(t), log_date |-> log_date_str]>>]

\* stop_session: elapsed_hours = max(0.0, (now_utc() - start_at).total_seconds() / 3600.0)
stop_elapsed_hours(t, start_at) == Max(0, t - start_at)

\* mutant: the delete has no WHERE clause
stop_delete_all(tbl, person) == [p \in DOMAIN tbl |-> << >>]

\* stop_session: DELETE FROM active_sessions WHERE person=?
stop_delete(tbl, person) == [tbl EXCEPT ![person] = << >>]

\* SUM(hours) over the first n rows that match the WHERE clause; 0 for no rows
RECURSIVE SumRows(_, _, _, _, _)
SumRows(tbl, n, person, start_iso, end_iso) ==
    IF n = 0 THEN 0
    ELSE LET r == tbl[n]
         IN (IF r.person = person /\ IsoGeq(r.log_date, start_iso)
                                  /\ IsoLess(r.log_date, end_iso)
             THEN r.hours ELSE 0)
            + SumRows(tbl, n - 1, person, start_iso, end_iso)

\* SELECT COALESCE(SUM(hours), 0) FROM logs WHERE person=? AND date in [start, end)
sum_hours_raw(tbl, person, start_d, end_exclusive) ==
    SumRows(tbl, Len(tbl), person, isoformat(start_d), isoformat(end_exclusive))

sum_hours(tbl, person, start_d, end_exclusive) ==
    clamp_nonneg(sum_hours_raw(tbl, person, start_d, end_exclusive))

\* mutant: only the people with a matching entry get a total
sum_hours_all_grouped(tbl, start_d, end_exclusive) ==
    LET grouped == {tbl[i].person : i \in {j \in 1..Len(tbl) :
                        /\ IsoGeq(tbl[j].log_date, isoformat(start_d))
                        /\ IsoLess(tbl[j].log_date, isoformat(end_exclusive))}}
    IN [p \in grouped |-> clamp_nonneg(sum_hours_raw(tbl, p, start_d, end_exclusive))]

\* SELECT person, COALESCE(SUM(hours), 0) ... GROUP BY person: one row for each
\* person with a matching entry; out = {p: 0.0 for p in PEOPLE}, then
\* out[p] = clamp_nonneg(v) for each row
sum_hours_all(tbl, start_d, end_exclusive) ==
    LET grouped == {tbl[i].person : i \in {j \in 1..Len(tbl) :
                        /\ IsoGeq(tbl[j].log_date, isoformat(start_d))
                        /\ IsoLess(tbl[j].log_date, isoformat(end_exclusive))}}
    IN [p \in People \cup grouped |->
            IF p \in grouped
            THEN clamp_nonneg(sum_hours_raw(tbl, p, start_d, end_exclusive))
            ELSE 0]

\* dict.get(p, 0.0)
GetOrZero(totals, p) == IF p \in DOMAIN totals THEN totals[p] ELSE 0

\* lines 482-489, leaderboard tab: the month of the sidebar's date, and the status
\* of each person in it
leaderboard_vested(tbl, selected_date, p) ==
    LET m0 == month_start(selected_date)
        m1 == month_end_exclusive(selected_date)
        totals_month == sum_hours_all(tbl, m0, m1)
    IN totals_month[p] >= MONTHLY_GOAL_HRS

\* lines 575-587, history tab: the picked month m0, everyone's badge
history_vested(tbl, m0, p) ==
    LET m1 == month_end_exclusive(m0)
        totals == sum_hours_all(tbl, m0, m1)
    IN GetOrZero(totals, p) >= MONTHLY_GOAL_HRS

\* lines 594-597, history tab: the sidebar person's own months
history_own_vested(tbl, m, person) ==
    sum_hours(tbl, person, m, month_end_exclusive(m)) >= MONTHLY_GOAL_HRS

\* mutant: the report vests only above the goal
admin_vested_above(tbl, m0, p) ==
    LET m1 == month_end_exclusive(m0)
        totals == sum_hours_all(tbl, m0, m1)
    IN GetOrZero(totals, p) > MONTHLY_GOAL_HRS

\* lines 608-616, admin vesting report: the report month m0
admin_vested(tbl, m0, p) ==
    LET m1 == month_end_exclusive(m0)
        totals == sum_hours_all(tbl, m0, m1)
    IN GetOrZero(totals, p) >= MONTHLY_GOAL_HRS

\* dict.items(): the pairs (person, total) in the order the keys were inserted,
\* which is the order of PEOPLE
totals_items(totals) ==
    [i \in 1..Len(PEOPLE) |-> <<PEOPLE[i], totals[PEOPLE[i]]>>]

\* mutant: a pair goes before the pairs of the same total
InsertBeforeTies(ranked, kv) ==
    LET before == {k \in 1..Len(ranked) : ranked[k][2] > kv[2]}
        n == Cardinality(before)
    IN SubSeq(ranked, 1, n) \o <<kv>> \o SubSeq(ranked, n + 1, Len(ranked))

\* sorted(..., key=lambda kv: kv[1], reverse=True) is a stable sort: a pair goes
\* after the pairs of a greater or the same total that came before it
InsertRanked(ranked, kv) ==
    LET before == {k \in 1..Len(ranked) : ranked[k][2] >= kv[2]}
        n == Cardinality(before)
    IN SubSeq(ranked, 1, n) \o <<kv>> \o SubSeq(ranked, n + 1, Len(ranked))

RECURSIVE SortedByTotal(_, _)
SortedByTotal(items, n) ==
    IF n = 0 THEN << >>
    ELSE InsertRanked(SortedByTotal(items, n - 1), items[n])

\* lines 470-475, leaderboard tab: the week of the sidebar's date
ranked_week(tbl, selected_date) ==
    LET w0 == week_start(selected_date)
        w1 == PlusDays(w0, 7)
        totals_week == sum_hours_all(tbl, w0, w1)
    IN SortedByTotal(totals_items(totals_week), Len(PEOPLE))

\* lines 482-487, leaderboard tab: the month of the sidebar's date
ranked_month(tbl, selected_date) ==
    LET m0 == month_start(selected_date)
        m1 == month_end_exclusive(selected_date)
        totals_month == sum_hours_all(tbl, m0, m1)
    IN SortedByTotal(totals_items(totals_month), Len(PEOPLE))

\* ORDER BY datetime(created_at) DESC LIMIT ?  over the rows ix of tbl: the sets of
\* rows a query may return (rows of one instant come in no promised order)
RecentSets(tbl, ix, limit) ==
    {S \in SUBSET ix :
        /\ Cardinality(S) = Min(limit, Cardinality(ix))
        /\ \A i \in S, j \in ix \ S :
              sql_datetime(tbl[i].created_at) >= sql_datetime(tbl[j].created_at)}

\* the orders in which the rows S may be returned
RecentOrders(tbl, S) ==
    {q \in [1..Cardinality(S) -> S] :
        /\ \A k, l \in 1..Cardinality(S) : k # l => q[k] # q[l]
        /\ \A k, l \in 1..Cardinality(S) :
              k < l => sql_datetime(tbl[q[k]].created_at) >= sql_datetime(tbl[q[l]].created_at)}

\* SELECT created_at, log_date, person, hours, source, notes
ListedRow(r) == <<r.created_at, r.log_date, r.person, r.hours, r.source, r.notes>>

\* fetch_recent_logs: WHERE person=? when a person is given, every row otherwise
LogsOf(tbl, person) == {i \in 1..Len(tbl) : person = NoPerson \/ tbl[i].person = person}

\* fetch_recent_logs: the results the query may give, each a sequence of rows
fetch_recent_logs(tbl, limit, person) ==
    LET ix == LogsOf(tbl, person)
    IN UNION {{[k \in 1..Cardinality(S) |-> ListedRow(tbl[q[k]])] : q \in RecentOrders(tbl, S)} :
                 S \in RecentSets(tbl, ix, limit)}

\* fetch_notifications: the ids of the rows the query may give
fetch_notifications(tbl, limit) == RecentSets(tbl, 1..Len(tbl), limit)

\* mark_notifications_seen: UPDATE notifications SET seen=1 WHERE id=?, for each id
mark_notifications_seen(tbl, ids) ==
    [i \in 1..Len(tbl) |-> IF i \in ids THEN [tbl[i] EXCEPT !.seen = 1] ELSE tbl[i]]

\* ------------------------------------------------------------------ state
NoDate == Date(0, 0, 0)

\* the script's locals before a run
Blank ==
    [button |-> "", person |-> NoPerson, selected_date |-> NoDate, running |-> FALSE,
     active |-> << >>, start_at |-> 0, log_date_str |-> NoText, elapsed_hours |-> 0,
     m_date |-> NoDate, m_hours |-> 0, m_reason |-> << >>, applied_hours |-> 0,
     elapsed_sec |-> 0, unseen_ids |-> {}]

Init ==
    /\ active = [p \in People |-> << >>]
    /\ logs = << >>
    /\ notifications = << >>
    /\ now = 0
    /\ pc = [s \in Sessions |-> "idle"]
    /\ loc = [s \in Sessions |-> Blank]
    /\ started = [p \in People |-> 0]
    /\ nOps = 0

\* ------------------------------------------------------------------ script
Step(s, to, l) ==
    /\ pc' = [pc EXCEPT ![s] = to]
    /\ loc' = [loc EXCEPT ![s] = l]

\* no other session is in the middle of a script run
Alone(s) == \A t \in Sessions \ {s} : pc[t] = "idle"

\* a click starts a script run: within the budget of runs and, where the runs are
\* serial, only when no other run is under way
MayClick(s, budget, serial) ==
    /\ pc[s] = "idle"
    /\ nOps < budget
    /\ serial => Alone(s)

\* line 385: running = active is not None
Running(rows) == rows # << >>

\* mutant: the Clock In button fires whatever the timer state read
ClockInOfferedAlways(running) == TRUE

\* line 412: the Clock In button is rendered (and can fire) only when not running
ClockInOffered(running) == ~running

\* line 416: the Clock Out button is rendered (and can fire) only when running
ClockOutOffered(running) == running

\* mutant: the handler logs whatever stop_session returned
ClockOutSavesAlways(log_date_str, elapsed_hours) == TRUE

\* mutant: the handler logs whenever stop_session returned a date
ClockOutSavesDated(log_date_str, elapsed_hours) == Truthy(log_date_str)

\* line 421: if log_date_str and elapsed_hours > 0
ClockOutSaves(log_date_str, elapsed_hours) ==
    Truthy(log_date_str) /\ Max(0, elapsed_hours) > 0

\* a click on Clock In reruns the script with the sidebar's person and date
ClickClockIn(s, p, d, budget, serial) ==
    /\ MayClick(s, budget, serial)
    /\ nOps' = nOps + 1
    /\ Step(s, "in_get", [Blank EXCEPT !.button = "clock_in", !.person = p,
                                        !.selected_date = d])
    /\ UNCHANGED <<active, logs, notifications, now, started>>

\* line 384 of the rerun after a click on Clock In
ClockInGetActive(s) ==
    /\ pc[s] = "in_get"
    /\ LET rows == get_active_session(active, loc[s].person)
       IN Step(s, IF ClockInOffered(Running(rows)) THEN "in_start" ELSE "done",
               [loc[s] EXCEPT !.running = Running(rows)])
    /\ UNCHANGED <<active, logs, notifications, now, started, nOps>>

\* line 414: start_session(person, selected_date.isoformat())
ClockInStart(s) ==
    /\ pc[s] = "in_start"
    /\ active' = start_session(active, now, loc[s].person, isoformat(loc[s].selected_date))
    /\ started' = [started EXCEPT ![loc[s].person] = @ + 1]
    /\ Step(s, "done", loc[s])
    /\ UNCHANGED <<logs, notifications, now, nOps>>

\* a click on Clock Out reruns the script with the sidebar's person and date
ClickClockOut(s, p, d, budget, serial) ==
    /\ MayClick(s, budget, serial)
    /\ nOps' = nOps + 1
    /\ Step(s, "out_get", [Blank EXCEPT !.button = "clock_out", !.person = p,
                                         !.selected_date = d])
    /\ UNCHANGED <<active, logs, notifications, now, started>>

\* line 384 of the rerun after a click on Clock Out
ClockOutGetActive(s) ==
    /\ pc[s] = "out_get"
    /\ LET rows == get_active_session(active, loc[s].person)
       IN Step(s, IF ClockOutOffered(Running(rows)) THEN "out_stop" ELSE "done",
               [loc[s] EXCEPT !.running = Running(rows)])
    /\ UNCHANGED <<active, logs, notifications, now, started, nOps>>

\* stop_session, lines 230-235: its own read of the timer row
StopGetActive(s) ==
    /\ pc[s] = "out_stop"
    /\ LET rows == get_active_session(active, loc[s].person)
       IN IF ~Running(rows)
          THEN \* return None, 0.0, and the handler's test of what it returned
               Step(s, IF ClockOutSaves(NoText, 0) THEN "out_log" ELSE "done",
                    [loc[s] EXCEPT !.active = rows, !.log_date_str = NoText,
                                   !.elapsed_hours = 0])
          ELSE Step(s, "out_now", [loc[s] EXCEPT !.active = rows,
                                                 !.start_at = parse_iso(rows[1].start_at),
                                                 !.log_date_str = rows[1].log_date])
    /\ UNCHANGED <<active, logs, notifications, now, started, nOps>>

\* stop_session, lines 237-238: the clock is read and the elapsed hours floored at 0
StopElapsed(s) ==
    /\ pc[s] = "out_now"
    /\ Step(s, "out_delete",
            [loc[s] EXCEPT !.elapsed_hours = stop_elapsed_hours(now, loc[s].start_at)])
    /\ UNCHANGED <<active, logs, notifications, now, started, nOps>>

\* stop_session, lines 240-246, and the handler's test of what it returned
StopDelete(s) ==
    /\ pc[s] = "out_delete"
    /\ active' = stop_delete(active, loc[s].person)
    /\ Step(s, IF ClockOutSaves(loc[s].log_date_str, loc[s].elapsed_hours)
               THEN "out_log" ELSE "done", loc[s])
    /\ UNCHANGED <<logs, notifications, now, started, nOps>>

\* mutant: the clock-out takes the date from the sidebar
ClockOutLogDateAmbient(l) == isoformat(l.selected_date)

\* lines 422-428: the date of the entry a clock-out writes
ClockOutLogDate(l) == l.log_date_str

\* lines 422-428: log_event(..., notes="Clocked session", source="timer")
ClockOutLog(s) ==
    /\ pc[s] = "out_log"
    /\ logs' = log_event(logs, now, loc[s].person, ClockOutLogDate(loc[s]),
                         Max(0, loc[s].elapsed_hours), "Clocked session", "timer")
    /\ Step(s, "done", loc[s])
    /\ UNCHANGED <<active, notifications, now, started, nOps>>

\* st.rerun() / the end of the script run: the locals are gone
Rerun(s) ==
    /\ pc[s] = "done"
    /\ Step(s, "idle", Blank)
    /\ UNCHANGED <<active, logs, notifications, now, started, nOps>>

\* mutant: the displayed time is not floored at zero
display_elapsed_raw(t, start_at) == (t - start_at) * 3600

\* line 396: elapsed_sec = max(0.0, (now_utc() - start_at).total_seconds())
display_elapsed_sec(t, start_at) == Max(0, (t - start_at) * 3600)

\* the script is rerun with no button pressed (the live timer's refresh, or any
\* other widget): the clock tab shows the timer
ClickView(s, p, d, budget, serial) ==
    /\ MayClick(s, budget, serial)
    /\ nOps' = nOps + 1
    /\ Step(s, "view_get", [Blank EXCEPT !.button = "view", !.person = p,
                                           !.selected_date = d])
    /\ UNCHANGED <<active, logs, notifications, now, started>>

\* lines 384-385 and 397-398 of a rerun with no button pressed
ViewGetActive(s) ==
    /\ pc[s] = "view_get"
    /\ LET rows == get_active_session(active, loc[s].person)
       IN IF Running(rows)
          THEN Step(s, "view_now", [loc[s] EXCEPT !.running = TRUE, !.active = rows,
                                                  !.start_at = parse_iso(rows[1].start_at)])
          ELSE Step(s, "done", [loc[s] EXCEPT !.running = FALSE, !.active = rows,
                                              !.elapsed_sec = 0])
    /\ UNCHANGED <<active, logs, notifications, now, started, nOps>>

\* lines 395-396: the clock is read and the elapsed seconds floored at 0
ViewElapsed(s) ==
    /\ pc[s] = "view_now"
    /\ Step(s, "done",
            [loc[s] EXCEPT !.elapsed_sec = display_elapsed_sec(now, loc[s].start_at)])
    /\ UNCHANGED <<active, logs, notifications, now, started, nOps>>

\* a click on Mark all as seen (the administrator's notifications tab) reruns the
\* script
ClickMarkSeen(s, budget, serial) ==
    /\ MayClick(s, budget, serial)
    /\ nOps' = nOps + 1
    /\ Step(s, "seen_get", [Blank EXCEPT !.button = "mark_seen", !.person = ADMIN_NAME])
    /\ UNCHANGED <<active, logs, notifications, now, started>>

\* lines 654-660: notes = fetch_notifications(limit=80), the unseen ids among
\* them; the button is rendered (and can fire) only when there are some
SeenFetch(s) ==
    /\ pc[s] = "seen_get"
    /\ \E ids \in fetch_notifications(notifications, 80) :
          LET unseen_ids == {i \in ids : notifications[i].seen = 0}
          IN Step(s, IF unseen_ids # {} THEN "seen_mark" ELSE "done",
                  [loc[s] EXCEPT !.unseen_ids = unseen_ids])
    /\ UNCHANGED <<active, logs, notifications, now, started, nOps>>

\* line 661: mark_notifications_seen(unseen_ids)
SeenMark(s) ==
    /\ pc[s] = "seen_mark"
    /\ notifications' = mark_notifications_seen(notifications, loc[s].unseen_ids)
    /\ Step(s, "done", loc[s])
    /\ UNCHANGED <<active, logs, now, started, nOps>>

\* the wall clock advances
Tick ==
    /\ now < MaxTime
    /\ now' = now + 1
    /\ UNCHANGED <<active, logs, notifications, pc, loc, started, nOps>>

\* the wall clock is set back (clock skew)
ClockSkew ==
    /\ now > 0
    /\ now' = now - 1
    /\ UNCHANGED <<active, logs, notifications, pc, loc, started, nOps>>

\* ------------------------------------------------------------------ manual time
\* the hours typed into the manual form in the model
HoursInput == (0 - MaxHours)..MaxHours

\* mutant: a reason is not required
ReasonMissingNever(m_reason) == FALSE

\* line 518: if not str(m_reason).strip()
ReasonMissing(m_reason) == ~Truthy(Strip(m_reason))

\* lines 528-533: the month floor
MonthFloor(applied_hours, month_before) ==
    IF ENFORCE_MONTH_FLOOR /\ month_before + applied_hours < 0
    THEN 0 - month_before
    ELSE applied_hours

\* mutant: no day floor
DayFloorOff(applied_hours, day_before) == applied_hours

\* mutant: the day floor drops the adjustment instead of reducing it
DayFloorToZero(applied_hours, day_before) ==
    IF ENFORCE_DAY_FLOOR /\ day_before + applied_hours < 0
    THEN 0
    ELSE applied_hours

\* lines 536-543: the day floor
DayFloor(applied_hours, day_before) ==
    IF ENFORCE_DAY_FLOOR /\ day_before + applied_hours < 0
    THEN 0 - day_before
    ELSE applied_hours

\* mutant: an adjustment of zero is not blocked
IsNoOpNever(applied_hours) == FALSE

\* line 546: if abs(applied_hours) < 1e-9
IsNoOp(applied_hours) == applied_hours = 0

\* a click on Save manual hours reruns the script with the sidebar's person and the
\* form's date, hours and reason; lines 517-522 (the reads of the clock tab that
\* come first in the script change nothing and are left out)
SubmitManual(s, p, d, h, r, budget, serial) ==
    /\ MayClick(s, budget, serial)
    /\ nOps' = nOps + 1
    /\ LET l == [Blank EXCEPT !.button = "manual", !.person = p, !.m_date = d,
                              !.m_hours = h, !.m_reason = r]
       IN IF ReasonMissing(r)
          THEN Step(s, "done", l)
          ELSE Step(s, "man_month", [l EXCEPT !.applied_hours = h])
    /\ UNCHANGED <<active, logs, notifications, now, started>>

\* lines 525-533: month_before = sum_hours_raw(person, m0, m1) and the month floor
ManualMonth(s) ==
    /\ pc[s] = "man_month"
    /\ LET l == loc[s]
           month_before == sum_hours_raw(logs, l.person, month_start(l.m_date),
                                         month_end_exclusive(l.m_date))
       IN Step(s, "man_day",
               [l EXCEPT !.applied_hours = MonthFloor(l.applied_hours, month_before)])
    /\ UNCHANGED <<active, logs, notifications, now, started, nOps>>

\* lines 536-547: day_before = sum_hours_raw(person, d0, d1), the day floor, and the
\* test that blocks an adjustment of zero
ManualDay(s) ==
    /\ pc[s] = "man_day"
    /\ LET l == loc[s]
           day_before == sum_hours_raw(logs, l.person, l.m_date, NextDay(l.m_date))
           applied == DayFloor(l.applied_hours, day_before)
       IN Step(s, IF IsNoOp(applied) THEN "done" ELSE "man_log",
               [l EXCEPT !.applied_hours = applied])
    /\ UNCHANGED <<active, logs, notifications, now, started, nOps>>

\* lines 549-555: log_event(..., source="manual_add")
ManualLog(s) ==
    /\ pc[s] = "man_log"
    /\ LET l == loc[s]
       IN logs' = log_event(logs, now, l.person, isoformat(l.m_date), l.applied_hours,
                            Strip(l.m_reason), "manual_add")
    /\ Step(s, "man_notify", loc[s])
    /\ UNCHANGED <<active, notifications, now, started, nOps>>

\* lines 556-562: add_notification(..., source="manual_add")
ManualNotify(s) ==
    /\ pc[s] = "man_notify"
    /\ LET l == loc[s]
       IN notifications' = add_notification(notifications, now, l.person,
                                            isoformat(l.m_date), l.applied_hours,
                                            Strip(l.m_reason), "manual_add")
    /\ Step(s, "done", loc[s])
    /\ UNCHANGED <<active, logs, now, started, nOps>>

\* ------------------------------------------------------------------ specifications
\* one step of the clock tab's handlers in the script run of front-end session s
ClockScript(s, actors, budget, serial) ==
    \/ \E p \in actors, d \in Dates : ClickClockIn(s, p, d, budget, serial)
    \/ ClockInGetActive(s)
    \/ ClockInStart(s)
    \/ \E p \in actors, d \in Dates : ClickClockOut(s, p, d, budget, serial)
    \/ ClockOutGetActive(s)
    \/ StopGetActive(s)
    \/ StopElapsed(s)
    \/ StopDelete(s)
    \/ ClockOutLog(s)
    \/ Rerun(s)

\* one step of the manual tab's handler in the script run of front-end session s
ManualScript(s, actors, budget, serial) ==
    \/ \E p \in actors, d \in Dates, h \in HoursInput, r \in Reasons :
            SubmitManual(s, p, d, h, r, budget, serial)
    \/ ManualMonth(s)
    \/ ManualDay(s)
    \/ ManualLog(s)
    \/ ManualNotify(s)
    \/ Rerun(s)

\* one step of a rerun that only shows the timer
ViewScript(s, actors, budget, serial) ==
    \/ \E p \in actors, d \in Dates : ClickView(s, p, d, budget, serial)
    \/ ViewGetActive(s)
    \/ ViewElapsed(s)

\* one step of the administrator's Mark all as seen
SeenScript(s, budget, serial) ==
    \/ ClickMarkSeen(s, budget, serial)
    \/ SeenFetch(s)
    \/ SeenMark(s)

\* The front-end sessions run concurrently and their statements interleave.
Next ==
    \/ \E s \in Sessions : ClockScript(s, Actors, MaxOps, FALSE)
    \/ \E s \in Sessions : ManualScript(s, Actors, MaxOps, FALSE)
    \/ \E s \in Sessions : ViewScript(s, Actors, MaxOps, FALSE)
    \/ \E s \in Sessions : SeenScript(s, MaxOps, FALSE)
    \/ Tick
    \/ ClockSkew

Spec == Init /\ [][Next]_vars

\* Every script run finishes before the next begins.
SeqNext ==
    \/ \E s \in Sessions : ClockScript(s, Actors, MaxOps, TRUE)
    \/ \E s \in Sessions : ManualScript(s, Actors, MaxOps, TRUE)
    \/ Tick
    \/ ClockSkew

SpecSeq == Init /\ [][SeqNext]_vars

\* The clock tab alone, its runs interleaved.
ClockNext ==
    \/ \E s \in Sessions : ClockScript(s, Actors, MaxOps, FALSE)
    \/ Tick
    \/ ClockSkew

SpecClock == Init /\ [][ClockNext]_vars

\* The clock tab alone, its runs interleaved, within the larger budget of runs.
ClockLongNext ==
    \/ \E s \in Sessions : ClockScript(s, Actors, MaxClockOps, FALSE)
    \/ Tick
    \/ ClockSkew

SpecClockLong == Init /\ [][ClockLongNext]_vars

\* The manual tab alone, its runs interleaved.
ManualNext ==
    \E s \in Sessions : ManualScript(s, Actors, MaxManualOps, FALSE)

SpecManual == Init /\ [][ManualNext]_vars

\* The manual tab alone, its runs interleaved, within the smaller budget of runs.
LedgerNext ==
    \E s \in Sessions : ManualScript(s, Actors, MaxOps, FALSE)

SpecLedger == Init /\ [][LedgerNext]_vars

\* The clock tab with its display, the runs interleaved.
ViewNext ==
    \/ \E s \in Sessions : ClockScript(s, Actors, MaxOps, FALSE)
    \/ \E s \in Sessions : ViewScript(s, Actors, MaxOps, FALSE)
    \/ Tick
    \/ ClockSkew

SpecView == Init /\ [][ViewNext]_vars

\* Two people, the administrator and one more, each at a front-end session of
\* their own, use every handler, the runs interleaved; the dates are the last day
\* of a month and the first of the next, the hours typed are half the monthly
\* goal (added or taken away) and the goal.
TeamUser(s) == PEOPLE[s]
TeamDates == {Date(2024, 12, 31), Date(2025, 1, 1)}
TeamHours == {0 - 24, 24, 48}
TeamReason == <<" ", "f", "i", "x">>

TeamNext ==
    \/ \E s \in Sessions, d \in TeamDates :
            ClickClockIn(s, TeamUser(s), d, MaxTeamOps, FALSE)
    \/ \E s \in Sessions : ClockInGetActive(s)
    \/ \E s \in Sessions : ClockInStart(s)
    \/ \E s \in Sessions, d \in TeamDates :
            ClickClockOut(s, TeamUser(s), d, MaxTeamOps, FALSE)
    \/ \E s \in Sessions : ClockOutGetActive(s)
    \/ \E s \in Sessions : StopGetActive(s)
    \/ \E s \in Sessions : StopElapsed(s)
    \/ \E s \in Sessions : StopDelete(s)
    \/ \E s \in Sessions : ClockOutLog(s)
    \/ \E s \in Sessions, d \in TeamDates, h \in TeamHours :
            SubmitManual(s, TeamUser(s), d, h, TeamReason, MaxTeamOps, FALSE)
    \/ \E s \in Sessions : ManualMonth(s)
    \/ \E s \in Sessions : ManualDay(s)
    \/ \E s \in Sessions : ManualLog(s)
    \/ \E s \in Sessions : ManualNotify(s)
    \/ \E s \in Sessions : TeamUser(s) = ADMIN_NAME /\ ClickMarkSeen(s, MaxTeamOps, FALSE)
    \/ \E s \in Sessions : SeenFetch(s)
    \/ \E s \in Sessions : SeenMark(s)
    \/ \E s \in Sessions : Rerun(s)
    \/ Tick

SpecTeam == Init /\ [][TeamNext]_vars

\* ------------------------------------------------------------------ properties
Last(seq) == seq[Len(seq)]

\* the raw stored total of a person for one day, and for the month of that day
DaySum(tbl, p, d) == sum_hours_raw(tbl, p, d, NextDay(d))
MonthSum(tbl, p, d) == sum_hours_raw(tbl, p, month_start(d), month_end_exclusive(d))

\* session s takes a step of its script run
Moves(s) == pc'[s] # pc[s]

TimerEntries(p) ==
    Cardinality({i \in 1..Len(logs) : logs[i].source = "timer" /\ logs[i].person = p})

\* C1: a clock-in for a person whose timer is running is rejected and changes
\* nothing: the run ends without start_session, and the row of the running
\* session (start instant, attribution date), the ledger and the notifications
\* are the same before and after every step of it.
C1_ClockInWhileRunningRejected ==
    [][\A s \in Sessions :
          (pc[s] \in {"in_get", "in_start"} /\ Moves(s) /\ Running(active[loc[s].person]))
              => /\ pc'[s] = "done"
                 /\ active' = active
                 /\ logs' = logs
                 /\ notifications' = notifications]_vars

\* a clock-in with another date than the running session's has been rejected,
\* and the running session still has its own date
C1_Witness ==
    \E s \in Sessions :
        /\ pc[s] = "done"
        /\ loc[s].button = "clock_in"
        /\ loc[s].running
        /\ Running(active[loc[s].person])
        /\ active[loc[s].person][1].log_date # isoformat(loc[s].selected_date)

\* C2: of two concurrent clock-ins of one person at most one succeeds: the row
\* (start instant, attribution date) of a running session is never overwritten.
C2_RunningSessionNotOverwritten ==
    [][\A p \in People :
          (Running(active[p]) /\ Running(active'[p])) => active'[p] = active[p]]_vars

\* C3: under any interleaving of two manual submissions, the write of a negative
\* adjustment leaves the person's raw total of that day and of that month >= 0.
C3_NegativeWriteKeepsTotalsNonNegative ==
    [][\A s \in Sessions :
          (pc[s] = "man_log" /\ Moves(s) /\ loc[s].m_hours < 0)
              => /\ DaySum(logs', loc[s].person, loc[s].m_date) >= 0
                 /\ MonthSum(logs', loc[s].person, loc[s].m_date) >= 0]_vars

\* C4: from an empty ledger, with every script run finishing before the next
\* begins, the raw stored total of every person is >= 0 for every day and
\* every month.
C4_RawTotalsNonNegative ==
    \A p \in People, d \in Dates :
        /\ DaySum(logs, p, d) >= 0
        /\ MonthSum(logs, p, d) >= 0

\* the ledger holds a timer entry and a negative adjustment that was reduced
\* by the floor
C4_Witness ==
    /\ \E i \in 1..Len(logs) : logs[i].source = "timer"
    /\ \E s \in Sessions :
          /\ pc[s] = "done"
          /\ loc[s].button = "manual"
          /\ loc[s].m_hours < loc[s].applied_hours
          /\ loc[s].applied_hours < 0
          /\ Last(logs).hours = loc[s].applied_hours

\* C5: every clocked-in session is written to the ledger at most once: a person
\* has no more timer entries than sessions started.
C5_OneTimerEntryPerSession ==
    \A p \in People : TimerEntries(p) <= started[p]

\* C6: a clock-out that finds the timer not running (at the script's read or at
\* stop_session's own read) ends without writing: stop_session returns
\* (None, 0.0), log_event is skipped, and the timer state, the ledger and the
\* notifications are unchanged, the timer still not running.
C6_ClockOutNotRunningWritesNothing ==
    [][\A s \in Sessions :
          (pc[s] \in {"out_get", "out_stop"} /\ Moves(s) /\ ~Running(active[loc[s].person]))
              => /\ pc'[s] = "done"
                 /\ loc'[s].log_date_str = NoText
                 /\ loc'[s].elapsed_hours = 0
                 /\ active' = active
                 /\ ~Running(active'[loc[s].person])
                 /\ logs' = logs
                 /\ notifications' = notifications]_vars

\* a clock-out whose script saw the timer running, and whose stop_session then
\* found no session, has ended
C6_Witness ==
    \E s \in Sessions :
        /\ pc[s] = "done"
        /\ loc[s].button = "clock_out"
        /\ loc[s].running
        /\ loc[s].log_date_str = NoText
        /\ ~Running(active[loc[s].person])

\* C7: the entry a clock-out writes carries the attribution date given at
\* clock-in: start_session stores the date given to it, only start_session
\* changes the date of a row, stop_session returns the date of the row it read,
\* and the handler writes the entry under that date, whatever the sidebar's
\* date is during the clock-out.
C7_ClockOutUsesClockInDate ==
    [][/\ \A s \in Sessions :
            /\ (pc[s] = "in_start" /\ Moves(s))
                  => active'[loc[s].person] =
                         <<[start_at |-> iso_utc(now),
                            log_date |-> isoformat(loc[s].selected_date)]>>
            /\ (pc[s] = "out_stop" /\ pc'[s] = "out_now")
                  => loc'[s].log_date_str = active[loc[s].person][1].log_date
            /\ (pc[s] \in {"out_now", "out_delete"} /\ Moves(s))
                  => loc'[s].log_date_str = loc[s].log_date_str
            /\ (pc[s] = "out_log" /\ Moves(s))
                  => /\ Len(logs') = Len(logs) + 1
                     /\ Last(logs').source = "timer"
                     /\ Last(logs').person = loc[s].person
                     /\ Last(logs').log_date = loc[s].log_date_str
       /\ \A p \in People :
            (Running(active'[p]) /\ active'[p] # active[p])
                  => \E s \in Sessions :
                        pc[s] = "in_start" /\ Moves(s) /\ loc[s].person = p]_vars

\* a clock-out has written an entry under the session's date while the sidebar
\* showed another date
C7_Witness ==
    \E s \in Sessions :
        /\ pc[s] = "done"
        /\ loc[s].button = "clock_out"
        /\ Len(logs) > 0
        /\ Last(logs).source = "timer"
        /\ Last(logs).log_date = loc[s].log_date_str
        /\ loc[s].log_date_str # isoformat(loc[s].selected_date)

C9_NonNegativeWrittenUnchanged ==
    [][\A s \in Sessions :
          /\ (pc[s] = "man_log" /\ Moves(s) /\ loc[s].m_hours >= 0)
                => Last(logs').hours = loc[s].m_hours
          /\ (pc[s] = "man_notify" /\ Moves(s) /\ loc[s].m_hours >= 0)
                => Last(notifications').delta_hours = loc[s].m_hours]_vars

C11_ManualEntriesHaveNote ==
    [][/\ \A i \in 1..Len(logs') :
            logs'[i].source = "manual_add"
                => \E k \in 1..Len(logs'[i].notes) : logs'[i].notes[k] # " "
       /\ \A s \in Sessions :
            (pc[s] = "idle" /\ Moves(s) /\ loc'[s].button = "manual"
                            /\ \A k \in 1..Len(loc'[s].m_reason) : loc'[s].m_reason[k] = " ")
                => /\ pc'[s] = "done"
                   /\ logs' = logs
                   /\ notifications' = notifications
       /\ \A s \in Sessions :
            (pc[s] = "done" /\ Moves(s))
                => /\ logs' = logs
                   /\ notifications' = notifications]_vars

\* a submission with a reason of blanks has been rejected, after one with a
\* padded reason was written with the reason stripped as its note
C11_Witness ==
    \E s \in Sessions :
        /\ pc[s] = "done"
        /\ loc[s].button = "manual"
        /\ loc[s].m_reason = <<" ">>
        /\ Len(logs) = 1
        /\ Len(notifications) = 1
        /\ logs[1].source = "manual_add"
        /\ logs[1].notes = <<"f", "i", "x">>

\* what a manual ledger entry and its notification have in common
EntryFields(r) == <<r.person, r.log_date, r.hours, r.notes, r.source>>
NoticeFields(n) == <<n.person, n.log_date, n.delta_hours, n.reason, n.source>>

ManualEntries == {i \in 1..Len(logs) : logs[i].source = "manual_add"}

\* the entries written by submissions that have not yet written their notification
AwaitingNotice(v) ==
    Cardinality({s \in Sessions :
        /\ pc[s] = "man_notify"
        /\ v = <<loc[s].person, isoformat(loc[s].m_date), loc[s].applied_hours,
                 Strip(loc[s].m_reason), "manual_add">>})

\* every manual entry has its own notification with the same person, date, hours,
\* reason and origin, or its submission is about to write it; there is no other
\* notification
Paired ==
    /\ \A i \in ManualEntries :
          LET v == EntryFields(logs[i])
          IN Cardinality({j \in ManualEntries : EntryFields(logs[j]) = v})
               = Cardinality({j \in 1..Len(notifications) :
                                  NoticeFields(notifications[j]) = v})
                 + AwaitingNotice(v)
    /\ \A j \in 1..Len(notifications) :
          \E i \in ManualEntries : EntryFields(logs[i]) = NoticeFields(notifications[j])

\* C12: notifications are paired 1:1 with manual ledger entries: an accepted
\* manual submission writes exactly one entry and then exactly one notification
\* with the same person, date, applied hours, reason and origin; a submission
\* that is not accepted writes neither; a clock-out never writes a notification.
C12_NotificationsPairedWithManualEntries ==
    [][/\ Paired'
       /\ \A s \in Sessions :
            /\ (pc[s] = "man_log" /\ Moves(s))
                  => /\ Len(logs') = Len(logs) + 1
                     /\ Last(logs').source = "manual_add"
                     /\ Last(logs').hours = loc[s].applied_hours
                     /\ notifications' = notifications
                     /\ pc'[s] = "man_notify"
            /\ (pc[s] = "man_notify" /\ Moves(s))
                  => /\ Len(notifications') = Len(notifications) + 1
                     /\ \E i \in ManualEntries :
                           /\ logs[i].hours = loc[s].applied_hours
                           /\ EntryFields(logs[i]) = NoticeFields(Last(notifications'))
                     /\ logs' = logs
                     /\ pc'[s] = "done"
            /\ (loc[s].button = "manual" /\ pc[s] \notin {"man_log", "man_notify"} /\ Moves(s))
                  => /\ logs' = logs
                     /\ notifications' = notifications
            /\ (loc[s].button = "clock_out" /\ Moves(s))
                  => notifications' = notifications]_vars

\* one person's clock-out has written a timer entry and the other person's
\* manual submission an entry and its notification: two entries, one notification
C12_Witness ==
    /\ Len(logs) = 2
    /\ \E i, j \in 1..2 :
          /\ logs[i].source = "timer"
          /\ logs[j].source = "manual_add"
          /\ logs[i].person # logs[j].person
          /\ Len(notifications) = 1
          /\ NoticeFields(notifications[1]) = EntryFields(logs[j])
    /\ \A s \in Sessions : pc[s] = "done"

\* the ends of the date intervals totals are asked for: the dates of the pickers,
\* the first of their months and the day after the last
Cuts == Dates \cup {month_start(d) : d \in Dates} \cup {NextDay(d) : d \in Dates}

\* the position of a date (or of its ISO fields) in the calendar's order
DateOrd(d) == (d.year * 12 + d.month) * 31 + d.day
IsoOrd(iso) == (iso[1] * 12 + iso[2]) * 31 + iso[3]

\* the entries of person p dated in [a, b), and the sum of their hours
Matching(tbl, p, a, b) ==
    {i \in 1..Len(tbl) : /\ tbl[i].person = p
                         /\ DateOrd(a) <= IsoOrd(tbl[i].log_date)
                         /\ IsoOrd(tbl[i].log_date) < DateOrd(b)}

RECURSIVE HoursOf(_, _)
HoursOf(tbl, S) ==
    IF S = {} THEN 0
    ELSE LET i == CHOOSE j \in S : TRUE
         IN tbl[i].hours + HoursOf(tbl, S \ {i})

\* C13: for every person and every date interval [a, b), the reported total
\* (sum_hours, and the person's value in sum_hours_all) is max(0, the sum of the
\* hours of the matching entries): never negative, and 0 when no entry matches.
C13_ReportedTotalIsFlooredRawSum ==
    \A a \in Cuts, b \in Cuts :
        LET all == sum_hours_all(logs, a, b)
        IN \A p \in People :
              LET raw == HoursOf(logs, Matching(logs, p, a, b))
                  total == sum_hours(logs, p, a, b)
              IN /\ total = (IF raw > 0 THEN raw ELSE 0)
                 /\ all[p] = (IF raw > 0 THEN raw ELSE 0)
                 /\ total >= 0
                 /\ Matching(logs, p, a, b) = {} => (total = 0 /\ all[p] = 0)

\* a person's entries of one day sum to less than zero (two submissions took the
\* same hours away) and the reported total of that day is 0
C13_Witness ==
    \E p \in People, d \in Dates :
        /\ HoursOf(logs, Matching(logs, p, d, NextDay(d))) < 0
        /\ sum_hours(logs, p, d, NextDay(d)) = 0
        /\ sum_hours_all(logs, d, NextDay(d))[p] = 0

\* the dates a <= b <= c that bound two adjacent intervals
CutTriples ==
    {t \in Cuts \X Cuts \X Cuts :
        DateOrd(t[1]) <= DateOrd(t[2]) /\ DateOrd(t[2]) <= DateOrd(t[3])}

\* the people with an entry in the ledger (the totals of the others are all 0)
PeopleIn(tbl) == {tbl[i].person : i \in 1..Len(tbl)}

\* C14: for every person and all dates a <= b <= c, the reported totals are
\* additive over adjacent intervals:
\* sum_hours(P, a, b) + sum_hours(P, b, c) = sum_hours(P, a, c).
\* The ledger starts empty; the totals are compared after every change of it.
C14_ReportedTotalsAdditive ==
    [][logs' # logs
          => \A p \in PeopleIn(logs'), t \in CutTriples :
                sum_hours(logs', p, t[1], t[2]) + sum_hours(logs', p, t[2], t[3])
                    = sum_hours(logs', p, t[1], t[3])]_vars

\* the rows of a listing
RowsOf(listing) == {listing[k] : k \in 1..Len(listing)}

\* every listing the query may give (all entries, and those of person p) shows row
ListedBack(tbl, row, p) ==
    /\ \A q \in fetch_recent_logs(tbl, 300, NoPerson) : row \in RowsOf(q)
    /\ \A q \in fetch_recent_logs(tbl, 12, p) : row \in RowsOf(q)

\* C15: the ledger is append-only: no step of a clock-in, clock-out, manual
\* submission or notification operation changes or removes an entry; an entry
\* just written is read back through the ledger listing with the person, date,
\* hours, origin and note it was written with, and every entry listed before a
\* step is listed unchanged after it.
C15_LedgerAppendOnly ==
    [][/\ Len(logs') >= Len(logs)
       /\ \A i \in 1..Len(logs) : logs'[i] = logs[i]
       /\ \A s \in Sessions :
            /\ (pc[s] = "man_log" /\ Moves(s))
                  => ListedBack(logs', <<iso_utc(now), isoformat(loc[s].m_date),
                                         loc[s].person, loc[s].applied_hours,
                                         "manual_add", Strip(loc[s].m_reason)>>,
                                loc[s].person)
            /\ (pc[s] = "out_log" /\ Moves(s))
                  => ListedBack(logs', <<iso_utc(now), loc[s].log_date_str,
                                         loc[s].person, loc[s].elapsed_hours,
                                         "timer", "Clocked session">>,
                                loc[s].person)
       /\ logs' # logs
            => \A q \in fetch_recent_logs(logs, 300, NoPerson) :
                  \A k \in 1..Len(q) : ListedBack(logs', q[k], q[k][3])]_vars

\* two entries are in the ledger, the first written before the administrator
\* marked its notification as seen, and the listing shows both as written
C15_Witness ==
    /\ Len(logs) = 2
    /\ Len(notifications) = 2
    /\ notifications[1].seen = 1
    /\ logs[1].hours # logs[2].hours
    /\ \A q \in fetch_recent_logs(logs, 300, NoPerson) :
          RowsOf(q) = {ListedRow(logs[1]), ListedRow(logs[2])}

\* C16: reading the elapsed time of a timer for display changes nothing in the
\* store (timer state, ledger, notifications), however often it is done, and the
\* value shown is max(0, now - start) for the session read, 0 when none is running.
C16_ElapsedDisplayReadsOnly ==
    [][\A s \in Sessions :
          /\ (Moves(s) /\ (loc[s].button = "view" \/ loc'[s].button = "view"))
                => /\ active' = active
                   /\ logs' = logs
                   /\ notifications' = notifications
          /\ (pc[s] = "view_get" /\ Moves(s) /\ ~Running(active[loc[s].person]))
                => /\ pc'[s] = "done"
                   /\ loc'[s].elapsed_sec = 0
          /\ (pc[s] = "view_get" /\ Moves(s) /\ Running(active[loc[s].person]))
                => /\ pc'[s] = "view_now"
                   /\ loc'[s].active = active[loc[s].person]
          /\ (pc[s] = "view_now" /\ Moves(s))
                => LET start == parse_iso(loc[s].active[1].start_at)
                   IN /\ pc'[s] = "done"
                      /\ loc'[s].elapsed_sec = (IF now > start THEN (now - start) * 3600 ELSE 0)
                      /\ loc'[s].elapsed_sec >= 0]_vars

\* a timer started at an instant the clock was later set back from has been shown
\* by both front-end sessions, with 0 elapsed, and is still running
C16_Witness ==
    /\ \A s \in Sessions :
          /\ pc[s] = "done"
          /\ loc[s].button = "view"
          /\ loc[s].running
          /\ loc[s].elapsed_sec = 0
          /\ parse_iso(loc[s].active[1].start_at) > now
          /\ active[loc[s].person] = loc[s].active
    /\ logs = << >>

\* the ledger entries of person q, in order
EntriesOf(tbl, q) == SelectSeq(tbl, LAMBDA r : r.person = q)

\* C17: operations on one person are independent of every other person: a step
\* of a clock-in, clock-out or manual submission by P leaves the timer state, the
\* ledger entries and the totals of every other person Q unchanged, and the hours
\* a submission of P is clamped to are those computed from P's own entries alone,
\* under any interleaving.
C17_PeopleIndependent ==
    [][\A s \in Sessions :
          LET P == loc'[s].person
          IN /\ (Moves(s) /\ loc'[s].button \in {"clock_in", "clock_out", "manual"})
                   => \A Q \in People \ {P} :
                         /\ active'[Q] = active[Q]
                         /\ EntriesOf(logs', Q) = EntriesOf(logs, Q)
                         /\ \A d \in Dates :
                               /\ DaySum(logs', Q, d) = DaySum(logs, Q, d)
                               /\ MonthSum(logs', Q, d) = MonthSum(logs, Q, d)
             /\ (pc[s] = "man_month" /\ Moves(s))
                   => loc'[s].applied_hours =
                        MonthFloor(loc[s].applied_hours,
                                   MonthSum(EntriesOf(logs, P), P, loc[s].m_date))
             /\ (pc[s] = "man_day" /\ Moves(s))
                   => loc'[s].applied_hours =
                        DayFloor(loc[s].applied_hours,
                                 DaySum(EntriesOf(logs, P), P, loc[s].m_date))]_vars

\* one person's timer is running and their entry of 48 hours is in the ledger,
\* and the other person's request to take 24 hours from the same day was rejected
\* because their own total is 0
C17_Witness ==
    \E s \in Sessions, Q \in People :
        /\ pc[s] = "done"
        /\ loc[s].button = "manual"
        /\ loc[s].person # Q
        /\ loc[s].m_hours < 0
        /\ loc[s].applied_hours = 0
        /\ Running(active[Q])
        /\ Len(logs) = 1
        /\ logs[1].person = Q
        /\ logs[1].hours = MONTHLY_GOAL_HRS
        /\ logs[1].log_date = isoformat(loc[s].m_date)

\* the hours of person p's entries dated in the year and month of d
MonthEntries(tbl, p, d) ==
    {i \in 1..Len(tbl) : /\ tbl[i].person = p
                         /\ tbl[i].log_date[1] = d.year
                         /\ tbl[i].log_date[2] = d.month}

\* C18: a person is reported as vested for a month exactly when their reported
\* total of that month (the sum of their entries dated in it, floored at 0) is at
\* least the goal of 48 hours, 48 included; entries of other months play no part;
\* the leaderboard, both history lists and the admin report agree.
C18_VestedIffMonthTotalReachesGoal ==
    \A p \in People, d \in TeamDates :
        LET raw == HoursOf(logs, MonthEntries(logs, p, d))
            expected == (IF raw > 0 THEN raw ELSE 0) >= 48
            m0 == Date(d.year, d.month, 1)
        IN /\ leaderboard_vested(logs, d, p) = expected
           /\ history_vested(logs, m0, p) = expected
           /\ history_own_vested(logs, m0, p) = expected
           /\ admin_vested(logs, m0, p) = expected

\* a person has exactly 48 hours in December, from two entries of 24, and 24 in
\* January: vested for December and not for January
C18_Witness ==
    \E p \in People :
        /\ Len(logs) = 3
        /\ \A i \in 1..3 : logs[i].person = p /\ logs[i].hours = 24
        /\ Cardinality(MonthEntries(logs, p, Date(2024, 12, 31))) = 2
        /\ admin_vested(logs, Date(2024, 12, 1), p)
        /\ leaderboard_vested(logs, Date(2024, 12, 31), p)
        /\ ~admin_vested(logs, Date(2025, 1, 1), p)
        /\ ~leaderboard_vested(logs, Date(2025, 1, 1), p)

\* the ends of the intervals asked for where the dates are those of the team
TeamCuts ==
    TeamDates \cup {month_start(d) : d \in TeamDates} \cup {NextDay(d) : d \in TeamDates}

\* C19: sum_hours_all(a, b) is a mapping whose keys are exactly the known people,
\* whose value is 0 for a person with no entry in [a, b), and whose value for each
\* person P is sum_hours(P, a, b).
C19_SumAllAgreesWithSumHours ==
    \A a \in TeamCuts, b \in TeamCuts :
        LET all == sum_hours_all(logs, a, b)
        IN /\ DOMAIN all = {"Drew", "Carson", "Kaden", "Chandler"}
           /\ \A p \in DOMAIN all :
                 /\ all[p] = sum_hours(logs, p, a, b)
                 /\ Matching(logs, p, a, b) = {} => all[p] = 0

\* both people of the team have hours in December and one of them in January:
\* the totals of January are 0 for three of the four known people
C19_Witness ==
    LET dec == sum_hours_all(logs, Date(2024, 12, 1), Date(2025, 1, 1))
        jan == sum_hours_all(logs, Date(2025, 1, 1), Date(2025, 2, 1))
    IN /\ Cardinality({p \in People : dec[p] > 0}) = 2
       /\ Cardinality({p \in People : jan[p] > 0}) = 1
       /\ Cardinality({p \in People : jan[p] = 0}) = 3

\* C20: every ledger entry of origin timer has strictly positive hours: the
\* elapsed time is floored at zero, and a clock-out whose elapsed time is zero or
\* negative (the clock was set back) writes no entry and still leaves the
\* person's timer not running.
C20_TimerEntriesPositive ==
    [][/\ \A i \in 1..Len(logs') : logs'[i].source = "timer" => logs'[i].hours > 0
       /\ \A s \in Sessions :
            /\ (pc[s] = "out_now" /\ Moves(s))
                  => loc'[s].elapsed_hours =
                        (IF now > loc[s].start_at THEN now - loc[s].start_at ELSE 0)
            /\ (pc[s] = "out_delete" /\ Moves(s))
                  => /\ ~Running(active'[loc[s].person])
                     /\ loc[s].elapsed_hours <= 0
                           => /\ pc'[s] = "done"
                              /\ logs' = logs
            /\ (pc[s] = "out_log" /\ Moves(s))
                  => /\ loc[s].elapsed_hours > 0
                     /\ Last(logs').hours = loc[s].elapsed_hours]_vars

\* a clock-out that read the clock set back before the session's start has
\* ended: nothing was written and the timer is not running
C20_Witness ==
    \E s \in Sessions :
        /\ pc[s] = "done"
        /\ loc[s].button = "clock_out"
        /\ loc[s].log_date_str # NoText
        /\ loc[s].start_at > now
        /\ loc[s].elapsed_hours = 0
        /\ ~Running(active[loc[s].person])
        /\ logs = << >>

\* C21: the ledger listing, with or without a person filter, returns entries in
\* descending order of creation: of any two listed entries, the one written later
\* (the later row of the ledger) comes first, also when both were written within
\* the same second.
C21_ListingNewestFirst ==
    \A p \in {NoPerson} \cup People :
        \A S \in RecentSets(logs, LogsOf(logs, p), 300) :
            \A q \in RecentOrders(logs, S) :
                \A k, l \in 1..Cardinality(S) : k < l => q[k] > q[l]

\* the place of a person in the configured list
PlaceOf(p) == CHOOSE i \in 1..Len(PEOPLE) : PEOPLE[i] = p

\* r lists every known person once, each with their reported total over [a, b),
\* greater totals first and equal totals in the configured order
IsLeaderboard(r, a, b) ==
    /\ Len(r) = 4
    /\ \A p \in {"Drew", "Carson", "Kaden", "Chandler"} :
          Cardinality({k \in 1..Len(r) : r[k][1] = p}) = 1
    /\ \A k \in 1..Len(r) : r[k][2] = sum_hours(logs, r[k][1], a, b)
    /\ \A k, l \in 1..Len(r) :
          k < l => /\ r[k][2] >= r[l][2]
                   /\ r[k][2] = r[l][2] => PlaceOf(r[k][1]) < PlaceOf(r[l][1])

\* C22: the weekly and the monthly leaderboard list every known person exactly
\* once, in non-increasing order of reported total (of the Monday-to-Monday week
\* and of the calendar month of the sidebar's date), people with equal totals in
\* the order of PEOPLE.
C22_LeaderboardsRankedStably ==
    \A d \in TeamDates :
        /\ IsLeaderboard(ranked_week(logs, d), Date(2024, 12, 30), Date(2025, 1, 6))
        /\ IsLeaderboard(ranked_month(logs, d), Date(d.year, d.month, 1),
                         IF d.month = 12 THEN Date(d.year + 1, 1, 1)
                                         ELSE Date(d.year, d.month + 1, 1))

\* the second person of the list leads December with 48 hours and the first
\* leads the week with 72, the other two tied at 0 in their configured order
C22_Witness ==
    /\ ranked_month(logs, Date(2024, 12, 31))
          = <<<<"Carson", 48>>, <<"Drew", 24>>, <<"Kaden", 0>>, <<"Chandler", 0>>>>
    /\ ranked_week(logs, Date(2024, 12, 31))
          = <<<<"Drew", 72>>, <<"Carson", 48>>, <<"Kaden", 0>>, <<"Chandler", 0>>>>

\* C23: a running session is removed from the timer store only by the clock-out
\* that read that same session (same start instant): the row a clock-out's
\* DELETE removes is the row its SELECT read, or none is left to remove, under
\* any interleaving of the clock-ins and clock-outs of several front-end
\* sessions for one person, so that no session started after the clock-out
\* read the timer state is deleted by it without its time being recorded.
C23_ClockOutDeletesSessionItRead ==
    [][/\ \A s \in Sessions :
            (pc[s] = "out_delete" /\ Moves(s) /\ Running(active[loc[s].person]))
                => parse_iso(active[loc[s].person][1].start_at) = loc[s].start_at
       /\ \A p \in People :
            (Running(active[p]) /\ ~Running(active'[p]))
                => \E s \in Sessions : /\ pc[s] = "out_delete"
                                       /\ Moves(s)
                                       /\ loc[s].person = p
                                       /\ loc[s].start_at = parse_iso(active[p][1].start_at)]_vars

====
